---- MODULE Spec2Model ----
(***************************************************************************)
(* Model of the trace-building traversal of smacpp                         *)
(* (src/src/parse/CodeBlockBuildingVisitor.cpp) and of the comparison      *)
(* negation table (src/src/parse/Variable.h).                              *)
(*                                                                         *)
(* The syntax tree handed over by clang is the input.  A tree node is a    *)
(* record whose field k is the clang statement/declaration class.  The     *)
(* recursion of clang::RecursiveASTVisitor is an explicit stack of pending *)
(* TraverseStmt/TraverseDecl calls: each step pops the node on top, runs   *)
(* the Visit*/Traverse* hook the visitor defines for its class and pushes  *)
(* the children the traversal descends into, first child on top            *)
(* (pre-order, depth first).  The implicit casts clang puts around an      *)
(* operand are left out where the visitors walk through them; the one a    *)
(* handler meets when it tests the class of a node itself (the initializer *)
(* of a declaration) is a node of the tree.                                *)
(***************************************************************************)
EXTENDS Integers, Sequences, FiniteSets, TLC

VARIABLES fun, pc, stack, block, registry, negIn, negOut

vars == <<fun, pc, stack, block, registry, negIn, negOut>>

----------------------------------------------------------------------------
(* Bounds of the explored inputs. *)

\* integer literals of the input programs are 0..MaxInt
MaxInt == 1
\* string literals of the input programs have 0..MaxStrLen content bytes
MaxStrLen == 2
\* a call of the input programs has 0..MaxArgs arguments
MaxArgs == 2
\* if statements nest to this depth
MaxDepth == 2
\* number of plain statements before and after the if statement of a body
MaxLeaves == 1
\* comparison operands are -MaxVal..MaxVal
MaxVal == 2

----------------------------------------------------------------------------
(* Syntax tree nodes (clang AST classes the visitors look at). *)

Null == [k |-> "Null"]

\* a reference to a variable (decl is a clang::VarDecl)
Var(v) == [k |-> "DeclRefExpr", decl |-> "VarDecl", name |-> v]

\* a reference to a function (decl is not a clang::VarDecl)
FunRef(f) == [k |-> "DeclRefExpr", decl |-> "FunctionDecl", name |-> f]

IntLit(n) == [k |-> "IntegerLiteral", val |-> n]

\* a string literal with n content bytes (getByteLength)
StrLit(n) == [k |-> "StringLiteral", bytes |-> n]

\* the array-to-pointer decay clang wraps around a string literal that
\* initialises a pointer (char* s = "hi")
Cast(e) == [k |-> "ImplicitCastExpr", sub |-> e]

Bin(op, l, r) == [k |-> "BinaryOperator", opc |-> op, lhs |-> l, rhs |-> r]

Assign(l, r) == Bin("BO_Assign", l, r)

Add(l, r) == Bin("BO_Add", l, r)

\* base[idx]: getLHS() is the base, getIdx() the index
Sub(b, i) == [k |-> "ArraySubscriptExpr", lhs |-> b, rhs |-> i]

\* a call; the callee expression is a function reference (direct call) or a
\* variable (call through a function pointer, getDirectCallee() is null)
Call(c, as) == [k |-> "CallExpr", callee |-> c, args |-> as]

VarDecl(v, i) == [k |-> "VarDecl", name |-> v, init |-> i]

ParmVarDecl(v) == [k |-> "ParmVarDecl", name |-> v]

DeclStmt(d) == [k |-> "DeclStmt", decl |-> d]

Compound(ss) == [k |-> "CompoundStmt", body |-> ss]

\* guard is the outcome of building and negating the Condition of cond
If(g, c, t, e) == [k |-> "IfStmt", guard |-> g, cond |-> c, then |-> t, else |-> e]

FunctionDecl(ps, b) == [k |-> "FunctionDecl", name |-> "f", params |-> ps, body |-> b]

\* the children clang's RecursiveASTVisitor descends into, in order
Children(n) ==
  CASE n.k = "FunctionDecl" -> n.params \o <<n.body>>
    [] n.k = "CompoundStmt" -> n.body
    [] n.k = "DeclStmt" -> <<n.decl>>
    [] n.k = "VarDecl" -> IF n.init.k = "Null" THEN <<>> ELSE <<n.init>>
    [] n.k = "IfStmt" -> <<n.cond, n.then, n.else>>
    [] n.k = "BinaryOperator" -> <<n.lhs, n.rhs>>
    [] n.k = "ArraySubscriptExpr" -> <<n.lhs, n.rhs>>
    [] n.k = "CallExpr" -> <<n.callee>> \o n.args
    [] n.k = "ImplicitCastExpr" -> <<n.sub>>
    [] OTHER -> <<>>

RECURSIVE Flatten(_)
Flatten(ss) == IF ss = <<>> THEN <<>> ELSE Head(ss) \o Flatten(Tail(ss))

\* the nodes of a subtree in the order a RecursiveASTVisitor visits them
RECURSIVE Preorder(_)
Preorder(n) ==
  IF n.k = "Null" THEN <<>>
  ELSE <<n>> \o Flatten([i \in 1..Len(Children(n)) |-> Preorder(Children(n)[i])])

\* a source location: the path of child indices from the function declaration
RECURSIVE NodeAt(_, _)
NodeAt(n, loc) ==
  IF loc = <<>> THEN n ELSE NodeAt(Children(n)[Head(loc)], Tail(loc))

----------------------------------------------------------------------------
(* VariableState *)

Unknown == [State |-> "Unknown", Value |-> "monostate"]

Primitive(n) == [State |-> "Primitive", Value |-> n]

Buffer(n) == [State |-> "Buffer", Value |-> n]

CopyVar(v) == [State |-> "CopyVar", Value |-> v]

----------------------------------------------------------------------------
(* The two probing sub-visitors.  An optional is <<>> or <<value>>. *)

\* one Visit step of VariableRefOrArrayVisitor on node n
RefVisit(s, n) ==
  CASE n.k = "DeclRefExpr" /\ n.decl = "VarDecl" /\ s.LikelyFullVariableAssign ->
         [s EXCEPT !.FoundVar = <<n.name>>]
    [] n.k = "ArraySubscriptExpr" ->
         [s EXCEPT !.LikelyFullVariableAssign = FALSE]
    [] OTHER -> s

RECURSIVE RefFold(_, _)
RefFold(s, ns) == IF ns = <<>> THEN s ELSE RefFold(RefVisit(s, Head(ns)), Tail(ns))

\* FoundVar after VariableRefOrArrayVisitor.TraverseStmt(e)
VariableRefOrArrayVisitor(e) ==
  RefFold([FoundVar |-> <<>>, LikelyFullVariableAssign |-> TRUE], Preorder(e)).FoundVar

\* FoundValue after VariableStateFindVisitor.TraverseStmt(e): the traversal
\* stops at the first integer literal it comes to
VariableStateFindVisitor(e) ==
  LET lits == SelectSeq(Preorder(e), LAMBDA n : n.k = "IntegerLiteral")
  IN IF lits = <<>> THEN <<>> ELSE <<Primitive(lits[1].val)>>

----------------------------------------------------------------------------
(* Condition: the path predicate class.  A condition is the sequence of    *)
(* the guards it conjoins, each the if statement it was built from and the *)
(* polarity it is taken with.                                              *)

\* what building the Condition of an if guard and negating it comes to
LiveGuards == {"AlwaysTrue", "AlwaysFalse", "Dynamic"}

FailingGuards == {"Unsupported", "NegateUnsupported", "UnknownState"}

\* the exception Condition(stmt->getCond()) or condition.Negate() throws
Thrown(stmt) ==
  CASE stmt.guard = "Unsupported" -> "runtime_error"
    [] stmt.guard = "NegateUnsupported" -> "runtime_error"
    [] stmt.guard = "UnknownState" -> "UnknownVariableStateException"
    [] OTHER -> "none"

\* GetCurrentCondition() of the function-level visitor
RootCondition == <<>>

Condition(stmt, loc) == <<[src |-> loc, guard |-> stmt.guard, neg |-> FALSE]>>

ConditionNegate(c) == [i \in DOMAIN c |-> [c[i] EXCEPT !.neg = ~@]]

And(c, d) == c \o d

IsAlwaysTrue(c) ==
  \A i \in DOMAIN c : \/ c[i].guard = "AlwaysTrue" /\ ~c[i].neg
                      \/ c[i].guard = "AlwaysFalse" /\ c[i].neg

\* the classes a handler can catch an exception of class ex as: its own and
\* its accessible (public) bases.  UnknownVariableStateException is declared
\* "class UnknownVariableStateException : std::runtime_error", a private
\* base, so no handler outside the class can bind it to a base class.
CatchableAs(ex) ==
  CASE ex = "runtime_error" -> {"runtime_error", "exception"}
    [] ex = "UnknownVariableStateException" -> {"UnknownVariableStateException"}
    [] OTHER -> {}

\* catch(const std::exception& e) in TraverseIfStmt
CaughtInTraverseIfStmt(ex) == "exception" \in CatchableAs(ex)

----------------------------------------------------------------------------
(* ProcessedAction variants and the CodeBlock. *)

VarDeclared(cond, var, state, loc) ==
  [type |-> "VarDeclared", cond |-> cond, var |-> var, state |-> state, loc |-> loc]

VarAssigned(cond, var, state, loc) ==
  [type |-> "VarAssigned", cond |-> cond, var |-> var, state |-> state, loc |-> loc]

ArrayIndexAccess(cond, var, index, loc) ==
  [type |-> "ArrayIndexAccess", cond |-> cond, var |-> var, state |-> index, loc |-> loc]

FunctionCall(cond, name, params, loc) ==
  [type |-> "FunctionCall", cond |-> cond, fn |-> name, params |-> params, loc |-> loc]

NoBlock == [Name |-> "", Actions |-> <<>>, Parameters |-> <<>>]

CodeBlock(name) == [Name |-> name, Actions |-> <<>>, Parameters |-> <<>>]

AddProcessedActions(b, acts) == [b EXCEPT !.Actions = @ \o acts]

AddFunctionParameter(b, v) == [b EXCEPT !.Parameters = Append(@, v)]

----------------------------------------------------------------------------
(* What each hook of ValueVisitBase appends for a node: <<>> or one action. *)

\* VisitVarDecl
VarDeclState(var) ==
  IF var.init.k # "Null" /\ var.init.k = "StringLiteral"
  THEN Buffer(var.init.bytes)
  ELSE Unknown

VisitVarDeclActions(var, cond, loc) ==
  IF var.k = "ParmVarDecl" THEN <<>>
  ELSE <<VarDeclared(cond, var.name, VarDeclState(var), loc)>>

\* VisitArraySubscriptExpr
VisitArraySubscriptExprActions(expr, cond, loc) ==
  LET index == expr.rhs
      FoundVar == VariableRefOrArrayVisitor(expr.lhs)
      indexValue == IF index.k = "IntegerLiteral" THEN Primitive(index.val) ELSE Unknown
  IN IF FoundVar = <<>> THEN <<>>
     ELSE IF indexValue.State # "Unknown"
          THEN <<ArrayIndexAccess(cond, FoundVar[1], indexValue, loc)>>
          ELSE <<>>

\* VisitBinaryOperator
VisitBinaryOperatorActions(op, cond, loc) ==
  IF op.opc # "BO_Assign" THEN <<>>
  ELSE LET lhs == VariableRefOrArrayVisitor(op.lhs)
           rhs == VariableRefOrArrayVisitor(op.rhs)
       IN IF lhs # <<>> /\ rhs # <<>>
          THEN <<VarAssigned(cond, lhs[1], CopyVar(rhs[1]), loc)>>
          ELSE <<>>

\* getDirectCallee(): the function a call names, <<>> for an indirect call
DirectCallee(call) ==
  IF call.callee.decl = "FunctionDecl" THEN <<call.callee.name>> ELSE <<>>

\* the state TraverseCallExpr records for one argument
CallParam(arg) ==
  LET FoundValue == VariableStateFindVisitor(arg)
  IN IF FoundValue # <<>> THEN FoundValue[1] ELSE Unknown

\* TraverseCallExpr
TraverseCallExprActions(call, cond, loc) ==
  IF DirectCallee(call) = <<>> THEN <<>>
  ELSE <<FunctionCall(cond, DirectCallee(call)[1],
                      [i \in 1..Len(call.args) |-> CallParam(call.args[i])], loc)>>

----------------------------------------------------------------------------
(* TraverseIfStmt: which branches are traversed, under which condition, in *)
(* which order.                                                            *)

ThenTraversed(condition, negated) == ~IsAlwaysTrue(negated)

\* the else test written as a copy of the then test
ElseTraversedMut(condition, negated) == ~IsAlwaysTrue(negated)

ElseTraversed(condition, negated) == ~IsAlwaysTrue(condition)

ThenCondition(current, condition, negated) == And(current, condition)

\* the else branch traversed under the guard instead of its negation
ElseConditionMut(current, condition, negated) == And(current, condition)

ElseCondition(current, condition, negated) == And(current, negated)

\* the else branch traversed before the then branch
BranchOrderMut(thenWork, elseWork) == elseWork \o thenWork

BranchOrder(thenWork, elseWork) == thenWork \o elseWork

\* a pending TraverseStmt(node) of a visitor whose condition is cond
Work(node, loc, cond) == [node |-> node, loc |-> loc, cond |-> cond]

\* TraverseStmt(nullptr) returns at once
WorkOf(node, loc, cond) == IF node.k = "Null" THEN <<>> ELSE <<Work(node, loc, cond)>>

\* the traversals of the children of the node of work item w
ChildWork(w) ==
  Flatten([i \in 1..Len(Children(w.node)) |->
             WorkOf(Children(w.node)[i], w.loc \o <<i>>, w.cond)])

IfWork(w) ==
  LET stmt == w.node
      condition == Condition(stmt, w.loc)
      negated == ConditionNegate(condition)
      thenWork == IF ThenTraversed(condition, negated)
                  THEN WorkOf(stmt.then, w.loc \o <<2>>,
                              ThenCondition(w.cond, condition, negated))
                  ELSE <<>>
      elseWork == IF ElseTraversed(condition, negated)
                  THEN WorkOf(stmt.else, w.loc \o <<3>>,
                              ElseCondition(w.cond, condition, negated))
                  ELSE <<>>
  IN BranchOrder(thenWork, elseWork)

----------------------------------------------------------------------------
(* Negate(COMPARISON) *)

COMPARISON ==
  {"LESS_THAN", "LESS_THAN_EQUAL", "GREATER_THAN", "GREATER_THAN_EQUAL",
   "NOT_EQUAL", "EQUAL"}

\* the table with the entry of > written as <
NegateMut(op) ==
  CASE op = "LESS_THAN" -> "GREATER_THAN_EQUAL"
    [] op = "LESS_THAN_EQUAL" -> "GREATER_THAN"
    [] op = "GREATER_THAN" -> "LESS_THAN"
    [] op = "GREATER_THAN_EQUAL" -> "LESS_THAN"
    [] op = "NOT_EQUAL" -> "EQUAL"
    [] op = "EQUAL" -> "NOT_EQUAL"
    [] OTHER -> "throw"

\* "throw" stands for the std::runtime_error of the default label
Negate(op) ==
  CASE op = "LESS_THAN" -> "GREATER_THAN_EQUAL"
    [] op = "LESS_THAN_EQUAL" -> "GREATER_THAN"
    [] op = "GREATER_THAN" -> "LESS_THAN_EQUAL"
    [] op = "GREATER_THAN_EQUAL" -> "LESS_THAN"
    [] op = "NOT_EQUAL" -> "EQUAL"
    [] op = "EQUAL" -> "NOT_EQUAL"
    [] OTHER -> "throw"

\* x op y, the relation each operator is named and printed as
CompareTo(op, x, y) ==
  CASE op = "LESS_THAN" -> x < y
    [] op = "LESS_THAN_EQUAL" -> x <= y
    [] op = "GREATER_THAN" -> x > y
    [] op = "GREATER_THAN_EQUAL" -> x >= y
    [] op = "NOT_EQUAL" -> x # y
    [] op = "EQUAL" -> x = y
    [] OTHER -> FALSE

----------------------------------------------------------------------------
(* The input programs. *)

Vars == {"a", "b"}

VarRefs == {Var(v) : v \in Vars}

IntLits == {IntLit(n) : n \in 0..MaxInt}

StrLits == {StrLit(n) : n \in 0..MaxStrLen}

Atoms == VarRefs \cup IntLits

\* a[0], a[b]
FlatSubs == {Sub(x, i) : x \in VarRefs, i \in Atoms}

\* a + 1, a + b
FlatAdds == {Add(x, y) : x \in VarRefs, y \in Atoms}

\* a = b, a = 1
FlatAssigns == {Assign(x, y) : x \in VarRefs, y \in Atoms}

\* bar(1)
FlatCalls == {Call(FunRef("bar"), <<i>>) : i \in IntLits}

Flat == Atoms \cup FlatSubs \cup FlatAdds \cup FlatAssigns \cup FlatCalls

\* a = e, a[0] = e with e flat or of the shape b + a[0]
Assignments ==
  {Assign(l, r) : l \in VarRefs \cup {Sub(x, i) : x \in VarRefs, i \in IntLits},
                  r \in Flat \cup {Add(x, Sub(y, i)) : x \in VarRefs, y \in VarRefs,
                                                        i \in IntLits}}

\* e[i] with e a variable, a sum or a subscript and i an atom or a subscript
Subscripts ==
  {Sub(b, i) : b \in VarRefs \cup FlatAdds \cup FlatSubs, i \in Atoms \cup FlatSubs}

ArgExprs ==
  IntLits \cup VarRefs \cup FlatCalls
    \cup {Add(Var("a"), i) : i \in IntLits}
    \cup {Sub(Var("a"), i) : i \in IntLits}
    \cup {Assign(Var("a"), Var("b"))}

ArgLists == UNION {[1..n -> ArgExprs] : n \in 0..MaxArgs}

\* foo(...) and a call through the function pointer b
Calls == {Call(c, as) : c \in {FunRef("foo"), Var("b")}, as \in ArgLists}

\* char s[] = "..", char* s = "..", int s = e, int s
Decls ==
  {DeclStmt(VarDecl("s", i)) :
     i \in {Null} \cup StrLits \cup {Cast(l) : l \in StrLits} \cup Flat}

ParamLists == {<<>>, <<ParmVarDecl("p")>>, <<ParmVarDecl("p"), ParmVarDecl("q")>>}

ExprPrograms ==
  {FunctionDecl(<<ParmVarDecl("p")>>, Compound(<<s>>)) :
     s \in Assignments \cup Subscripts \cup Calls}

DeclPrograms == {FunctionDecl(ps, Compound(<<s>>)) : ps \in ParamLists, s \in Decls}

\* the guard expression of an if statement whose Condition comes to g
GuardCond(g) ==
  CASE g = "AlwaysTrue" -> IntLit(1)
    [] g = "AlwaysFalse" -> IntLit(0)
    [] OTHER -> Var("a")

BranchLeaf == Compound(<<Assign(Var("a"), Var("b")), Sub(Var("a"), IntLit(0))>>)

PreLeaf == DeclStmt(VarDecl("s", Null))

PostLeaf == Call(FunRef("foo"), <<IntLit(0)>>)

\* a branch that holds the if statement x between two plain statements
Around(x) == Compound(<<Assign(Var("b"), Var("a")), x, Sub(Var("b"), IntLit(0))>>)

\* if statements nested to depth d; a nested if lies in the then or in the
\* else branch of its parent, the other branch is a block of plain statements
RECURSIVE Ifs(_)
Ifs(d) ==
  IF d = 0 THEN {}
  ELSE {If(g, GuardCond(g), BranchLeaf, e) : g \in LiveGuards, e \in {BranchLeaf, Null}}
         \cup {If(g, GuardCond(g), BranchLeaf, BranchLeaf) : g \in FailingGuards}
         \cup {If(g, GuardCond(g), Around(x), BranchLeaf) :
                 g \in LiveGuards, x \in Ifs(d - 1)}
         \cup {If(g, GuardCond(g), BranchLeaf, Around(x)) :
                 g \in LiveGuards, x \in Ifs(d - 1)}

Repeat(s, n) == [i \in 1..n |-> s]

IfPrograms ==
  {FunctionDecl(<<ParmVarDecl("p")>>,
                Compound(Repeat(PreLeaf, i) \o <<s>> \o Repeat(PostLeaf, j))) :
     i \in 0..MaxLeaves, j \in 0..MaxLeaves, s \in Ifs(MaxDepth)}

Programs == ExprPrograms \cup DeclPrograms \cup IfPrograms

----------------------------------------------------------------------------
(* The traversal of one function. *)

NegIdle == [op |-> "EQUAL", x |-> 0, y |-> 0]

Init ==
  /\ fun \in Programs
  /\ pc = "start"
  /\ stack = <<>>
  /\ block = NoBlock
  /\ registry = <<>>
  /\ negIn = NegIdle
  /\ negOut = <<>>

Top == Head(stack)

\* CodeBlockBuildingVisitor::TraverseFunctionDecl, up to Visitor.TraverseDecl(fun)
TraverseFunctionDecl ==
  /\ pc = "start"
  /\ block' = CodeBlock(fun.name)
  /\ stack' = ChildWork(Work(fun, <<>>, RootCondition))
  /\ pc' = "traverse"
  /\ UNCHANGED <<fun, registry, negIn, negOut>>

\* FunctionVisitor on a parameter: VisitVarDecl returns at once,
\* VisitParmVarDecl records the parameter
VisitParmVarDecl ==
  /\ pc = "traverse" /\ stack # <<>> /\ Top.node.k = "ParmVarDecl"
  /\ block' = AddFunctionParameter(
                AddProcessedActions(block, VisitVarDeclActions(Top.node, Top.cond, Top.loc)),
                Top.node.name)
  /\ stack' = ChildWork(Top) \o Tail(stack)
  /\ UNCHANGED <<fun, pc, registry, negIn, negOut>>

VisitVarDecl ==
  /\ pc = "traverse" /\ stack # <<>> /\ Top.node.k = "VarDecl"
  /\ block' = AddProcessedActions(block, VisitVarDeclActions(Top.node, Top.cond, Top.loc))
  /\ stack' = ChildWork(Top) \o Tail(stack)
  /\ UNCHANGED <<fun, pc, registry, negIn, negOut>>

VisitArraySubscriptExpr ==
  /\ pc = "traverse" /\ stack # <<>> /\ Top.node.k = "ArraySubscriptExpr"
  /\ block' = AddProcessedActions(block,
                VisitArraySubscriptExprActions(Top.node, Top.cond, Top.loc))
  /\ stack' = ChildWork(Top) \o Tail(stack)
  /\ UNCHANGED <<fun, pc, registry, negIn, negOut>>

VisitBinaryOperator ==
  /\ pc = "traverse" /\ stack # <<>> /\ Top.node.k = "BinaryOperator"
  /\ block' = AddProcessedActions(block,
                VisitBinaryOperatorActions(Top.node, Top.cond, Top.loc))
  /\ stack' = ChildWork(Top) \o Tail(stack)
  /\ UNCHANGED <<fun, pc, registry, negIn, negOut>>

\* the override replaces the default traversal: the callee and the
\* arguments of the call are not descended into
TraverseCallExpr ==
  /\ pc = "traverse" /\ stack # <<>> /\ Top.node.k = "CallExpr"
  /\ block' = AddProcessedActions(block,
                TraverseCallExprActions(Top.node, Top.cond, Top.loc))
  /\ stack' = Tail(stack)
  /\ UNCHANGED <<fun, pc, registry, negIn, negOut>>

\* the override replaces the default traversal: the guard expression is not
\* descended into.  An exception the handler does not catch unwinds every
\* pending traversal and leaves TraverseFunctionDecl before AddBlock.
TraverseIfStmt ==
  /\ pc = "traverse" /\ stack # <<>> /\ Top.node.k = "IfStmt"
  /\ IF Thrown(Top.node) = "none"
     THEN /\ stack' = IfWork(Top) \o Tail(stack)
          /\ pc' = pc
     ELSE IF CaughtInTraverseIfStmt(Thrown(Top.node))
          THEN /\ stack' = Tail(stack)
               /\ pc' = pc
          ELSE /\ stack' = <<>>
               /\ pc' = "aborted"
  /\ UNCHANGED <<fun, block, registry, negIn, negOut>>

\* node classes the visitors define no hook for: the default traversal
DefaultClasses ==
  {"CompoundStmt", "DeclStmt", "DeclRefExpr", "IntegerLiteral", "StringLiteral",
   "ImplicitCastExpr"}

TraverseDefault ==
  /\ pc = "traverse" /\ stack # <<>> /\ Top.node.k \in DefaultClasses
  /\ stack' = ChildWork(Top) \o Tail(stack)
  /\ UNCHANGED <<fun, pc, block, registry, negIn, negOut>>

\* CodeBlockBuildingVisitor::TraverseFunctionDecl, after the traversal
AddBlock ==
  /\ pc = "traverse" /\ stack = <<>>
  /\ registry' = Append(registry, block)
  /\ pc' = "done"
  /\ UNCHANGED <<fun, stack, block, negIn, negOut>>

Next ==
  \/ TraverseFunctionDecl
  \/ VisitParmVarDecl
  \/ VisitVarDecl
  \/ VisitArraySubscriptExpr
  \/ VisitBinaryOperator
  \/ TraverseCallExpr
  \/ TraverseIfStmt
  \/ TraverseDefault
  \/ AddBlock

Spec == Init /\ [][Next]_vars

----------------------------------------------------------------------------
(* Negate applied to an operator, and to its result. *)

InitNegate ==
  /\ fun = FunctionDecl(<<>>, Compound(<<>>))
  /\ pc = "idle"
  /\ stack = <<>>
  /\ block = NoBlock
  /\ registry = <<>>
  /\ negIn \in [op : COMPARISON \cup {"INVALID"}, x : -MaxVal..MaxVal, y : -MaxVal..MaxVal]
  /\ negOut = <<>>

NegateFirst ==
  /\ pc = "idle" /\ negOut = <<>>
  /\ negOut' = <<Negate(negIn.op)>>
  /\ UNCHANGED <<fun, pc, stack, block, registry, negIn>>

NegateAgain ==
  /\ pc = "idle" /\ Len(negOut) = 1 /\ negOut[1] # "throw"
  /\ negOut' = Append(negOut, Negate(negOut[1]))
  /\ UNCHANGED <<fun, pc, stack, block, registry, negIn>>

NextNegate == NegateFirst \/ NegateAgain

SpecNegate == InitNegate /\ [][NextNegate]_vars

----------------------------------------------------------------------------
(* Vocabulary of the properties. *)

Acts == block.Actions

\* the handler about to run
AtNode(class) == pc = "traverse" /\ stack # <<>> /\ Top.node.k = class

IsBareVar(e) == e.k = "DeclRefExpr" /\ e.decl = "VarDecl"

IsAssign(n) == n.k = "BinaryOperator" /\ n.opc = "BO_Assign"

Prefix(loc, n) == SubSeq(loc, 1, n)

\* the if statements around the node at loc, each as the length of its path
EnclosingIfs(loc) ==
  {n \in 0..(Len(loc) - 1) : NodeAt(fun, Prefix(loc, n)).k = "IfStmt"}

InThen(loc, n) == loc[n + 1] = 2

InElse(loc, n) == loc[n + 1] = 3

RECURSIVE Locs(_, _)
Locs(n, loc) ==
  {loc} \cup UNION {Locs(Children(n)[i], loc \o <<i>>) : i \in 1..Len(Children(n))}

\* the conjunction of the guards around loc, outermost first, each with the
\* polarity of the branch loc lies in
RECURSIVE GuardsAround(_, _)
GuardsAround(loc, n) ==
  IF n >= Len(loc) THEN RootCondition
  ELSE LET stmt == NodeAt(fun, Prefix(loc, n))
           here == IF stmt.k # "IfStmt" THEN RootCondition
                   ELSE IF InThen(loc, n) THEN Condition(stmt, Prefix(loc, n))
                   ELSE IF InElse(loc, n)
                        THEN ConditionNegate(Condition(stmt, Prefix(loc, n)))
                        ELSE RootCondition
       IN And(here, GuardsAround(loc, n + 1))

ActiveCondition(loc) == GuardsAround(loc, 0)

\* loc is reached by no pruned branch and no skipped if statement
OnTraversedPath(loc) ==
  \A n \in EnclosingIfs(loc) :
    LET stmt == NodeAt(fun, Prefix(loc, n))
        condition == Condition(stmt, Prefix(loc, n))
    IN /\ Thrown(stmt) = "none"
       /\ InThen(loc, n) => ~IsAlwaysTrue(ConditionNegate(condition))
       /\ InElse(loc, n) => ~IsAlwaysTrue(condition)

\* p comes before q in the traversal: p is an ancestor of q, or p lies in an
\* earlier child of their last common ancestor
PathBefore(p, q) ==
  \E n \in 0..Len(p) :
    /\ n <= Len(q)
    /\ Prefix(p, n) = Prefix(q, n)
    /\ \/ n = Len(p) /\ n < Len(q)
       \/ n < Len(p) /\ n < Len(q) /\ p[n + 1] < q[n + 1]

\* the shapes the emission rules name
EmitsByRule(n) ==
  \/ n.k = "CallExpr" /\ DirectCallee(n) # <<>>
  \/ n.k = "ArraySubscriptExpr" /\ IsBareVar(n.lhs) /\ n.rhs.k = "IntegerLiteral"
  \/ IsAssign(n) /\ IsBareVar(n.lhs) /\ IsBareVar(n.rhs)

ActionTypeOf(n) ==
  CASE n.k = "CallExpr" -> "FunctionCall"
    [] n.k = "ArraySubscriptExpr" -> "ArrayIndexAccess"
    [] OTHER -> "VarAssigned"

----------------------------------------------------------------------------
\* C1: VisitBinaryOperator appends VarAssigned(target, CopyVar(source)) if and
\* only if the operator is an assignment whose left side is one bare variable
\* reference and whose right side is one bare variable reference; for every
\* other operator (literal, compound, nested or subscripted right side,
\* subscripted left side) it appends nothing.
C1_AssignmentShape ==
  [][AtNode("BinaryOperator") =>
       IF IsAssign(Top.node) /\ IsBareVar(Top.node.lhs) /\ IsBareVar(Top.node.rhs)
       THEN block'.Actions =
              Append(Acts, VarAssigned(Top.cond, Top.node.lhs.name,
                                       CopyVar(Top.node.rhs.name), Top.loc))
       ELSE block' = block]_vars

\* C2: a direct call with n arguments appends one FunctionCall with n states
\* in argument order, the i-th being Primitive(k) if and only if the i-th
\* argument is the bare integer literal k, and Unknown otherwise.
C2_CallArguments ==
  [][(AtNode("CallExpr") /\ DirectCallee(Top.node) # <<>>) =>
       block'.Actions =
         Append(Acts,
                FunctionCall(Top.cond, DirectCallee(Top.node)[1],
                             [i \in 1..Len(Top.node.args) |->
                                IF Top.node.args[i].k = "IntegerLiteral"
                                THEN Primitive(Top.node.args[i].val)
                                ELSE Unknown],
                             Top.loc))]_vars

\* C3: a visited subscript appends ArrayIndexAccess(base, Primitive(k)) if and
\* only if its base is one bare variable and its index the integer literal k;
\* any other subscript (non-literal index, nested or compound base) appends
\* nothing.
C3_SubscriptShape ==
  [][AtNode("ArraySubscriptExpr") =>
       IF IsBareVar(Top.node.lhs) /\ Top.node.rhs.k = "IntegerLiteral"
       THEN block'.Actions =
              Append(Acts, ArrayIndexAccess(Top.cond, Top.node.lhs.name,
                                            Primitive(Top.node.rhs.val), Top.loc))
       ELSE block' = block]_vars

\* no action of the block comes from a branch that its if statement proves dead
NoActionFromDeadBranch ==
  \A i \in DOMAIN Acts :
    \A n \in EnclosingIfs(Acts[i].loc) :
      LET stmt == NodeAt(fun, Prefix(Acts[i].loc, n))
          condition == Condition(stmt, Prefix(Acts[i].loc, n))
      IN /\ Thrown(stmt) = "none"
         /\ IsAlwaysTrue(condition) => ~InElse(Acts[i].loc, n)
         /\ IsAlwaysTrue(ConditionNegate(condition)) => ~InThen(Acts[i].loc, n)

\* TraverseIfStmt on a modelled guard starts the traversal of exactly the
\* branches that are present and not proved dead, the then branch first
LiveBranchesTraversed ==
  AtNode("IfStmt") /\ Thrown(Top.node) = "none" =>
    LET condition == Condition(Top.node, Top.loc)
        negated == ConditionNegate(condition)
        started == SubSeq(stack', 1, Len(stack') - Len(Tail(stack)))
        thenLoc == Top.loc \o <<2>>
        elseLoc == Top.loc \o <<3>>
        thenLive == ~IsAlwaysTrue(negated) /\ Top.node.then.k # "Null"
        elseLive == ~IsAlwaysTrue(condition) /\ Top.node.else.k # "Null"
    IN /\ Len(stack') >= Len(Tail(stack))
       /\ thenLive <=> \E i \in DOMAIN started : started[i].loc = thenLoc
       /\ elseLive <=> \E i \in DOMAIN started : started[i].loc = elseLoc
       /\ \A i \in DOMAIN started : started[i].loc \in {thenLoc, elseLoc}

\* when the traversal of the function is over, every statement of a branch
\* that is present and not proved dead has been visited: a statement of a
\* shape that emits has its action in the block
LiveBranchesDone ==
  pc = "done" =>
    \A loc \in Locs(fun, <<>>) :
      (/\ EnclosingIfs(loc) # {}
       /\ NodeAt(fun, Prefix(loc, Len(loc) - 1)).k = "CompoundStmt"
       /\ OnTraversedPath(loc)
       /\ EmitsByRule(NodeAt(fun, loc))) =>
        \E i \in DOMAIN Acts : Acts[i].loc = loc

\* C4: for every if statement whose guard is modelled, at every nesting depth:
\* a guard that is provably always true leaves no action of the else branch in
\* the block, a guard whose negation is provably always true leaves no action
\* of the then branch, and when neither holds both branches are traversed.
C4_DeadBranchPruning ==
  /\ []NoActionFromDeadBranch
  /\ [][LiveBranchesTraversed]_vars
  /\ []LiveBranchesDone

\* a finished traversal that pruned the else branch of an always-true if and
\* the then branch of an always-false if, one nested in the other
C4_Witness ==
  /\ pc = "done"
  /\ \E i \in DOMAIN Acts :
       /\ Cardinality(EnclosingIfs(Acts[i].loc)) >= 2
       /\ \E n, m \in EnclosingIfs(Acts[i].loc) :
            /\ NodeAt(fun, Prefix(Acts[i].loc, n)).guard = "AlwaysTrue"
            /\ NodeAt(fun, Prefix(Acts[i].loc, n)).else.k # "Null"
            /\ NodeAt(fun, Prefix(Acts[i].loc, m)).guard = "AlwaysFalse"

\* C5: when building or negating the Condition of an if guard fails with any
\* failure the program raises, TraverseIfStmt catches it: the block is as
\* before, neither branch is traversed, and the traversal goes on with what
\* follows the if.
C5_GuardFailureCaught ==
  [][(AtNode("IfStmt") /\ Thrown(Top.node) # "none") =>
       /\ block' = block
       /\ stack' = Tail(stack)
       /\ pc' = "traverse"]_vars

\* C6: every action of the block carries the conjunction of the guards of all
\* if statements around it, each negated when the action lies in the else
\* branch; an action outside any if carries the root condition.
C6_ActionCondition ==
  \A i \in DOMAIN Acts : Acts[i].cond = ActiveCondition(Acts[i].loc)

\* an action in an else branch of an if nested in another if
C6_Witness ==
  \E i \in DOMAIN Acts :
    /\ Len(Acts[i].cond) >= 2
    /\ \E j \in DOMAIN Acts[i].cond : Acts[i].cond[j].neg
    /\ \E j \in DOMAIN Acts[i].cond : ~Acts[i].cond[j].neg

\* C7: the actions of a function are in one block, in traversal order: those
\* of an earlier statement before those of a later one, those of a then branch
\* before those of its else branch, those of an if between its neighbours'; the
\* block registered at the end is that block.
C7_TraversalOrder ==
  /\ \A i, j \in DOMAIN Acts : i < j => PathBefore(Acts[i].loc, Acts[j].loc)
  /\ pc = "done" => registry = <<block>>
  /\ pc # "done" => registry = <<>>

\* a registered block with an action before an if, one in its then branch, one
\* in its else branch and one after it
C7_Witness ==
  /\ pc = "done"
  /\ \E h, i, j, l \in DOMAIN Acts :
       /\ h < i /\ i < j /\ j < l
       /\ EnclosingIfs(Acts[h].loc) = {}
       /\ EnclosingIfs(Acts[l].loc) = {}
       /\ \E n \in EnclosingIfs(Acts[i].loc) \cap EnclosingIfs(Acts[j].loc) :
            /\ Prefix(Acts[i].loc, n) = Prefix(Acts[j].loc, n)
            /\ InThen(Acts[i].loc, n)
            /\ InElse(Acts[j].loc, n)

\* the initializer is a string literal: of an array (char s[] = "hi") or,
\* through the pointer decay, of a pointer (char* s = "hi")
IsStringLiteralInit(e) ==
  \/ e.k = "StringLiteral"
  \/ e.k = "ImplicitCastExpr" /\ e.sub.k = "StringLiteral"

StringLiteralBytes(e) == IF e.k = "StringLiteral" THEN e.bytes ELSE e.sub.bytes

\* C8: a visited local variable declaration appends exactly one VarDeclared
\* under the active condition, with Buffer(n) when its initializer is a string
\* literal of n content bytes and Unknown otherwise; a parameter declaration
\* appends no action and is recorded as a block parameter.
C8_Declarations ==
  [][/\ AtNode("VarDecl") =>
          /\ block'.Actions =
               Append(Acts,
                      VarDeclared(Top.cond, Top.node.name,
                                  IF IsStringLiteralInit(Top.node.init)
                                  THEN Buffer(StringLiteralBytes(Top.node.init))
                                  ELSE Unknown,
                                  Top.loc))
          /\ block'.Parameters = block.Parameters
     /\ AtNode("ParmVarDecl") =>
          /\ block'.Actions = Acts
          /\ block'.Parameters = Append(block.Parameters, Top.node.name)]_vars

\* C9: Negate maps < to >=, <= to >, > to <=, >= to <, != to == and == to !=;
\* it has no fixed point, is its own inverse, is a bijection of the six
\* operators, and of x op y and x Negate(op) y exactly one holds.
C9_NegateTable ==
  (negIn.op \in COMPARISON /\ negOut # <<>>) =>
    /\ negOut[1] = CASE negIn.op = "LESS_THAN" -> "GREATER_THAN_EQUAL"
                     [] negIn.op = "LESS_THAN_EQUAL" -> "GREATER_THAN"
                     [] negIn.op = "GREATER_THAN" -> "LESS_THAN_EQUAL"
                     [] negIn.op = "GREATER_THAN_EQUAL" -> "LESS_THAN"
                     [] negIn.op = "NOT_EQUAL" -> "EQUAL"
                     [] negIn.op = "EQUAL" -> "NOT_EQUAL"
    /\ negOut[1] # negIn.op
    /\ negOut[1] \in COMPARISON
    /\ Len(negOut) = 2 => negOut[2] = negIn.op
    /\ CompareTo(negIn.op, negIn.x, negIn.y) # CompareTo(negOut[1], negIn.x, negIn.y)
    /\ \A o \in COMPARISON : Negate(o) = negOut[1] => o = negIn.op
    /\ \E o \in COMPARISON : Negate(o) = negIn.op

\* Negate applied twice to an ordering operator, on operands that differ
C9_Witness ==
  /\ negIn.op = "LESS_THAN_EQUAL"
  /\ Len(negOut) = 2
  /\ negIn.x > negIn.y

\* C10: when the traversal of a function is over, every direct call, every
\* literal-indexed subscript of a bare variable and every bare-variable
\* assignment on a traversed path has exactly one action in the block, under
\* the active condition, wherever it is nested (in an argument list, in the
\* guard of an if statement).
C10_EveryExpressionEmits ==
  pc = "done" =>
    \A loc \in Locs(fun, <<>>) :
      (OnTraversedPath(loc) /\ EmitsByRule(NodeAt(fun, loc))) =>
        Cardinality({i \in DOMAIN Acts :
                       /\ Acts[i].loc = loc
                       /\ Acts[i].type = ActionTypeOf(NodeAt(fun, loc))
                       /\ Acts[i].cond = ActiveCondition(loc)}) = 1

====
